---- MODULE Spec2Model ----
(***************************************************************************)
(* State-machine model of the morphing tree scene (src/src/tree/store.ts): *)
(* the zustand store (state, progress, selectedPolaroid), the input        *)
(* handlers registered by TreeSystem and PolaroidField, the React commit   *)
(* that refreshes the values those handlers and the frame callbacks close  *)
(* over, the per-frame drivers, and the pure sampling functions            *)
(* easeInOutCubic and buildPolaroidPoints.                                 *)
(*                                                                         *)
(* Numbers.  progress is a JavaScript number; it is modelled exactly as an *)
(* integer count of units of 1/One.  A wheel event's deltaY is modelled as *)
(* an integer count of thirds, so that deltaY * 0.0012 is the integer      *)
(* SpeedNum * deltaY units and progress = 0.5 can be hit exactly.          *)
(***************************************************************************)
EXTENDS Integers, Sequences, FiniteSets

VARIABLES
    state,             \* store: TreeMorphState
    progress,          \* store: progress, in units of 1/One
    selectedPolaroid,  \* store: {} for null, {i} for the index i
    hookState,         \* `state` as returned by useTreeStore at the last commit
    hookProgress,      \* `progress` as returned by useTreeStore at the last commit
    hookSelected,      \* `selectedPolaroid` as returned at the last commit
    easeArgInstanced,  \* argument MorphInstanced passed to easeInOutCubic, {} before the first frame
    easeArgPanel,      \* argument PolaroidField passed to easeInOutCubic, {} before the first frame
    panelBranch,       \* per panel: branch taken by the last PolaroidField frame
    panelTouched,      \* indices of refs.current / points dereferenced by the last frame
    panelWrites,       \* per panel: the writes of the last frame to the group's transform, in order
    instLog,           \* per instanced batch: the mesh calls of the last frame, in order
    panelOrient,       \* per panel: the orientation the last frame's normal branch wrote
    lastOp,            \* the last operation performed and its argument
    staleRead,         \* whether some input handler has read a captured value that the store had left behind
    easeIn,            \* inputs <<p, q>> given to easeInOutCubic (units of 1/EaseDen)
    easeOut,           \* <<easeInOutCubic(p), easeInOutCubic(q)>>, or <<>> before the call
    count,             \* buildPolaroidPoints: the count argument
    pts                \* buildPolaroidPoints: the points pushed so far

vars == << state, progress, selectedPolaroid, hookState, hookProgress, hookSelected,
           easeArgInstanced, easeArgPanel, panelBranch, panelTouched, panelWrites, instLog,
           panelOrient, lastOp, staleRead,
           easeIn, easeOut, count, pts >>

storeVars == << state, progress, selectedPolaroid >>
hookVars == << hookState, hookProgress, hookSelected >>
frameVars == << easeArgInstanced, easeArgPanel, panelBranch, panelTouched,
               panelWrites, instLog, panelOrient >>
sceneVars == << storeVars, hookVars, frameVars, lastOp, staleRead >>
easeVars == << easeIn, easeOut >>
gridVars == << count, pts >>
pureVars == << easeVars, gridVars >>

(***************************************************************************)
(* Bounds of the model.                                                    *)
(***************************************************************************)
NumPanels == 2     \* panels in the scene (the source builds 25)
MaxNotch == 4      \* a wheel event's deltaY is k notches, k in -MaxNotch..MaxNotch
EaseHalf == 6      \* easeInOutCubic is evaluated on the grid k / (2 * EaseHalf)
MaxCount == 26     \* buildPolaroidPoints is called with count in 0..MaxCount
MaxBatch == 4      \* points.length of the largest instanced batch (the source has 2400)

(***************************************************************************)
(* Program constants.                                                      *)
(***************************************************************************)
SCATTERED == "SCATTERED"
TREE_SHAPE == "TREE_SHAPE"
TreeMorphState == {SCATTERED, TREE_SHAPE}

SpeedNum == 12         \* const speed = 0.0012 = SpeedNum / SpeedDen
SpeedDen == 10000
One == 3 * SpeedDen    \* progress 1, in thirds of 1/SpeedDen
Half == One \div 2     \* the 0.5 threshold of onWheel
Notch == One \div (4 * SpeedNum)  \* a deltaY (in thirds) that moves progress by 0.25

Panels == 0 .. NumPanels - 1
Deltas == { k * Notch : k \in -MaxNotch .. MaxNotch }
KeyCodes == {"Space", "KeyA"}

Op(name, arg) == [op |-> name, arg |-> arg]

Min(a, b) == IF a < b THEN a ELSE b
Max(a, b) == IF a > b THEN a ELSE b
Clamp(x, lo, hi) == Max(lo, Min(hi, x))

(***************************************************************************)
(* The store (useTreeStore).                                               *)
(***************************************************************************)
ToggleNextState(prev) == IF prev = SCATTERED THEN TREE_SHAPE ELSE SCATTERED

\* a toggle that flips the state and leaves progress where it was
ToggleProgressKept(nextState) == progress
ToggleProgress(nextState) == IF nextState = TREE_SHAPE THEN One ELSE 0

toggle ==
    /\ state' = ToggleNextState(state)
    /\ progress' = ToggleProgress(ToggleNextState(state))
    /\ UNCHANGED selectedPolaroid

setProgress(p) ==
    /\ progress' = p

setState(s) ==
    /\ state' = s

selectPolaroid(i) ==
    /\ selectedPolaroid' = {i}

clearPolaroid ==
    /\ selectedPolaroid' = {}

(***************************************************************************)
(* Input handlers.  Each reads the values its component closed over at the *)
(* last commit (hookState, hookProgress, hookSelected), not the store.     *)
(***************************************************************************)
\* TreeSystem: window "keydown" listener
onKey(code) ==
    /\ IF code = "Space" THEN toggle ELSE UNCHANGED storeVars
    /\ lastOp' = Op("key", IF code = "Space" THEN 1 ELSE 0)
    /\ UNCHANGED staleRead
    /\ UNCHANGED << hookVars, frameVars, pureVars >>

\* the wheel step without THREE.MathUtils.clamp
WheelNextUnclamped(p, deltaY) == p - deltaY * SpeedNum
WheelNext(p, deltaY) == Clamp(p - deltaY * SpeedNum, 0, One)

\* the threshold test written with >= for >
WheelStateAtLeast(next) == IF next >= Half THEN TREE_SHAPE ELSE SCATTERED
WheelState(next) == IF next > Half THEN TREE_SHAPE ELSE SCATTERED

\* TreeSystem: window "wheel" listener
onWheel(deltaY) ==
    /\ setProgress(WheelNext(hookProgress, deltaY))
    /\ setState(WheelState(WheelNext(hookProgress, deltaY)))
    /\ UNCHANGED selectedPolaroid
    /\ lastOp' = Op("wheel", deltaY)
    /\ staleRead' = (staleRead \/ hookProgress # progress)
    /\ UNCHANGED << hookVars, frameVars, pureVars >>

\* TreeSystem: onPointerDown of the scene group; gives the selection it leaves
GroupPointerDown(sel) ==
    IF hookState = SCATTERED /\ hookSelected # {} THEN {} ELSE sel

\* PolaroidField: onPointerDown of panel i; gives the selection it leaves
PanelSelect(i, sel) ==
    IF hookState = SCATTERED THEN {i} ELSE sel

\* e.stopPropagation() is the handler's first statement
PanelStopsPropagation(i) == TRUE

\* a pointer-down whose nearest hit is panel i: the panel's handler runs, then
\* the event bubbles to the scene group unless propagation was stopped
PanelPointerDown(i) ==
    /\ selectedPolaroid' =
          IF PanelStopsPropagation(i)
          THEN PanelSelect(i, selectedPolaroid)
          ELSE GroupPointerDown(PanelSelect(i, selectedPolaroid))
    /\ UNCHANGED << state, progress >>
    /\ lastOp' = Op("panelDown", i)
    /\ staleRead' = (staleRead \/ hookState # state)
    /\ UNCHANGED << hookVars, frameVars, pureVars >>

\* a pointer-down that hits the scene group outside every panel
BackgroundPointerDown ==
    /\ selectedPolaroid' = GroupPointerDown(selectedPolaroid)
    /\ UNCHANGED << state, progress >>
    /\ lastOp' = Op("backgroundDown", 0)
    /\ staleRead' = (staleRead \/ hookState # state \/ hookSelected # selectedPolaroid)
    /\ UNCHANGED << hookVars, frameVars, pureVars >>

(***************************************************************************)
(* React commit: the subscribed components re-render after a store change; *)
(* handlers, effects and frame callbacks then close over the new values.   *)
(* The store only notifies its subscribers; React schedules the commit, it *)
(* is no part of the handler that wrote the store, so further input events *)
(* can be dispatched before it runs.  All subscribed components commit     *)
(* together, and the wheel effect is re-registered in the same commit.     *)
(***************************************************************************)
Render ==
    /\ << hookState, hookProgress, hookSelected >> # << state, progress, selectedPolaroid >>
    /\ hookState' = state
    /\ hookProgress' = progress
    /\ hookSelected' = selectedPolaroid
    /\ lastOp' = Op("render", 0)
    /\ UNCHANGED staleRead
    /\ UNCHANGED << storeVars, frameVars, pureVars >>

(***************************************************************************)
(* One rendered frame: every useFrame callback runs once.                  *)
(***************************************************************************)
Refs == Panels   \* refs.current[i] is set for every mounted panel

\* a focus test that does not compare the selected index with i
FocusedAnySelection(i) == hookState = SCATTERED /\ hookSelected # {}
Focused(i) == hookState = SCATTERED /\ hookSelected = {i}

PanelBranch(i) ==
    IF i \notin Refs THEN "skip"
    ELSE IF Focused(i) THEN "focus"
    ELSE "normal"

\* indices of the per-panel arrays read on iteration i
PanelAccess(i) == {i}

Write(target, by) == [target |-> target, by |-> by]

\* focus branch: g.position.lerp, g.scale.lerp, g.quaternion.slerp toward the camera pose
FocusWrites ==
    << Write("position", "focus"), Write("scale", "focus"), Write("quaternion", "focus") >>

\* normal branch: g.position.copy, g.scale.copy, g.quaternion.copy of the morph
MorphWrites ==
    << Write("position", "morph"), Write("scale", "morph"), Write("quaternion", "morph") >>

\* a focus branch that falls through into the morph
FocusFallsThrough(i) == FALSE
\* the focus branch ends with `continue`
FocusContinues(i) == TRUE

\* the writes of one loop iteration to group i
PanelWrites(i) ==
    IF i \notin Refs THEN << >>
    ELSE IF Focused(i)
         THEN FocusWrites \o (IF FocusContinues(i) THEN << >> ELSE MorphWrites)
         ELSE MorphWrites

(***************************************************************************)
(* MorphInstanced: four batches (needles, two ornament classes, garland    *)
(* beads), each with its own instanced mesh.  BatchLen holds scaled-down   *)
(* stand-ins for the lengths 2400, 85, 42 and 160.                         *)
(***************************************************************************)
BatchLen == << MaxBatch, 2, 1, 3 >>
Batches == 1 .. Len(BatchLen)

SetMatrixAt(i) == [call |-> "setMatrixAt", slot |-> i]
NeedsUpdate == [call |-> "needsUpdate", slot |-> -1]

\* a loop body that raises the flag after every slot
InstancedIterationFlagging(i) == << SetMatrixAt(i), NeedsUpdate >>
\* the mesh calls of loop iteration i
InstancedIteration(i) == << SetMatrixAt(i) >>

RECURSIVE InstancedLoop(_, _)
\* for (let i = from; i < n; i++)
InstancedLoop(from, n) ==
    IF from >= n THEN << >>
    ELSE InstancedIteration(from) \o InstancedLoop(from + 1, n)

\* one MorphInstanced useFrame callback over a batch of n points
InstancedFrame(n) == InstancedLoop(0, n) \o << NeedsUpdate >>

(***************************************************************************)
(* The orientation of the normal branch.  Vectors are integer triples in   *)
(* units of 1/20; the normalize() calls are left out, since they scale a   *)
(* vector by a positive factor and change neither the sign of a dot        *)
(* product nor the handedness of a basis.                                  *)
(***************************************************************************)
Sub(a, b) == << a[1] - b[1], a[2] - b[2], a[3] - b[3] >>
Dot(a, b) == a[1] * b[1] + a[2] * b[2] + a[3] * b[3]
Cross(a, b) ==
    << a[2] * b[3] - a[3] * b[2], a[3] * b[1] - a[1] * b[3], a[1] * b[2] - a[2] * b[1] >>
Det3(a, b, c) == Dot(Cross(a, b), c)

worldUp == << 0, 1, 0 >>

\* cone = { height: 10.5, radiusBase: 4.6, radiusTop: 0.25, yBase: -4.8 }
cone == [height |-> 210, radiusBase |-> 92, radiusTop |-> 5, yBase |-> -96]
treeCenter == << 0, cone.yBase + cone.height \div 2, 0 >>

\* directions around the trunk, one per panel in turn
RingDir == << << 1, 0 >>, << 0, 1 >>, << -1, 0 >>, << 0, -1 >> >>

\* p.treePosition: panel i sits on the cone surface pushed out by 1.08, at
\* height fraction (i + 1) / (NumPanels + 1), in direction RingDir
treePosition(i) ==
    LET den == NumPanels + 1
        num == i + 1
        y == cone.yBase + (cone.height * num) \div den
        r == (108 * (cone.radiusBase * (den - num) + cone.radiusTop * num)) \div (100 * den)
        dir == RingDir[(i % Len(RingDir)) + 1]
    IN  << r * dir[1], y, r * dir[2] >>

\* progress moves on the grid of wheel notches: Grid steps from 0 to One
Grid == One \div (SpeedNum * Notch)
FrameDen == 2 * Grid * Grid * Grid

\* t = easeInOutCubic(progress), as a numerator over FrameDen
FrameEase(p) ==
    LET n == (p * Grid) \div One
    IN  IF 2 * n < Grid
        THEN 8 * n * n * n
        ELSE FrameDen - (2 * Grid - 2 * n) * (2 * Grid - 2 * n) * (2 * Grid - 2 * n)

\* align = clamp((t - 0.75) / 0.25, 0, 1), as a numerator over FrameDen
Align(t) == Clamp(4 * t - 3 * FrameDen, 0, FrameDen)

\* alignEased = align * align * (3 - 2 * align), as a numerator over FrameDen^3
AlignEased(a) == a * a * (3 * FrameDen - 2 * a)
AlignEasedDen == FrameDen * FrameDen * FrameDen

\* outward.copy(center).sub(p.treePosition)
Outward(i) == Sub(treeCenter, treePosition(i))

\* right = outward x worldUp, or (1, 0, 0) when that vanishes
Right(i) ==
    LET c == Cross(Outward(i), worldUp)
    IN  IF Dot(c, c) = 0 THEN << 1, 0, 0 >> ELSE c

\* up = right x outward
Up(i) == Cross(Right(i), Outward(i))

\* mat.makeBasis(right, up, outward): the columns of the matrix handed to
\* qUpright.setFromRotationMatrix
UprightBasis(i) == [right |-> Right(i), up |-> Up(i), forward |-> Outward(i)]

ZeroVec == << 0, 0, 0 >>
NoBasis == [right |-> ZeroVec, up |-> ZeroVec, forward |-> ZeroVec]
NoOrient == [kind |-> "none", basis |-> NoBasis]

\* qFinal.slerp(qUpright, alignEased): weight 0 keeps the scatter-to-tree
\* rotation, weight 1 copies qUpright, anything between blends the two
PanelOrient(i) ==
    IF PanelBranch(i) # "normal" THEN NoOrient
    ELSE LET w == AlignEased(Align(FrameEase(hookProgress)))
         IN  IF w <= 0 THEN [kind |-> "base", basis |-> NoBasis]
             ELSE IF w >= AlignEasedDen THEN [kind |-> "upright", basis |-> UprightBasis(i)]
             ELSE [kind |-> "blend", basis |-> UprightBasis(i)]

Frame ==
    /\ easeArgInstanced' = {hookProgress}
    /\ easeArgPanel' = {hookProgress}
    /\ panelBranch' = [i \in Panels |-> PanelBranch(i)]
    /\ panelTouched' = UNION { PanelAccess(i) : i \in Panels }
    /\ panelWrites' = [i \in Panels |-> PanelWrites(i)]
    /\ instLog' = [b \in Batches |-> InstancedFrame(BatchLen[b])]
    /\ panelOrient' = [i \in Panels |-> PanelOrient(i)]
    /\ lastOp' = Op("frame", 0)
    /\ UNCHANGED staleRead
    /\ UNCHANGED << storeVars, hookVars, pureVars >>

(***************************************************************************)
(* Specification of the scene driven by user input.                        *)
(***************************************************************************)
SceneInit ==
    /\ state = TREE_SHAPE
    /\ progress = One
    /\ selectedPolaroid = {}
    /\ hookState = TREE_SHAPE
    /\ hookProgress = One
    /\ hookSelected = {}
    /\ easeArgInstanced = {}
    /\ easeArgPanel = {}
    /\ panelBranch = [i \in Panels |-> "none"]
    /\ panelTouched = {}
    /\ panelWrites = [i \in Panels |-> << >>]
    /\ instLog = [b \in Batches |-> << >>]
    /\ panelOrient = [i \in Panels |-> NoOrient]
    /\ lastOp = Op("init", 0)
    /\ staleRead = FALSE

PureIdle ==
    /\ easeIn = << 0, 0 >>
    /\ easeOut = << >>
    /\ count = 0
    /\ pts = << >>

Init == SceneInit /\ PureIdle

KeyDown == \E code \in KeyCodes : onKey(code)
Wheel == \E deltaY \in Deltas : onWheel(deltaY)
PanelDown == \E i \in Panels : PanelPointerDown(i)

Next ==
    \/ KeyDown
    \/ Wheel
    \/ PanelDown
    \/ BackgroundPointerDown
    \/ Render
    \/ Frame

Spec == Init /\ [][Next]_vars

(***************************************************************************)
(* Specification of the store driven through its exported operations: any  *)
(* importer of useTreeStore may call them with any argument.  toggle is    *)
(* called by the keydown listener.                                         *)
(***************************************************************************)
ApiProgress == { -(One \div 4), One + (One \div 4) }   \* arguments outside [0,1]
ApiIndices == -1 .. NumPanels                          \* includes stale indices

ApiSetProgress ==
    \E p \in ApiProgress :
        /\ setProgress(p)
        /\ UNCHANGED << state, selectedPolaroid >>
        /\ lastOp' = Op("setProgress", p)
        /\ UNCHANGED staleRead
        /\ UNCHANGED << hookVars, frameVars, pureVars >>

ApiSetState ==
    \E s \in TreeMorphState :
        /\ setState(s)
        /\ UNCHANGED << progress, selectedPolaroid >>
        /\ lastOp' = Op("setState", 0)
        /\ UNCHANGED staleRead
        /\ UNCHANGED << hookVars, frameVars, pureVars >>

ApiSelectPolaroid ==
    \E i \in ApiIndices :
        /\ selectPolaroid(i)
        /\ UNCHANGED << state, progress >>
        /\ lastOp' = Op("selectPolaroid", i)
        /\ UNCHANGED staleRead
        /\ UNCHANGED << hookVars, frameVars, pureVars >>

ApiClearPolaroid ==
    /\ clearPolaroid
    /\ UNCHANGED << state, progress >>
    /\ lastOp' = Op("clearPolaroid", 0)
    /\ UNCHANGED staleRead
    /\ UNCHANGED << hookVars, frameVars, pureVars >>

NextApi ==
    \/ KeyDown
    \/ ApiSetProgress
    \/ ApiSetState
    \/ ApiSelectPolaroid
    \/ ApiClearPolaroid
    \/ Render
    \/ Frame

SpecApi == Init /\ [][NextApi]_vars

(***************************************************************************)
(* Claims about the store and the input handlers.                          *)
(***************************************************************************)
ToggleStep == lastOp'.op = "key" /\ lastOp'.arg = 1

\* C1: toggle(), in any store state, flips state to the other value and sets
\* progress to 1 when the new state is TREE_SHAPE and to 0 when it is
\* SCATTERED; so {TREE_SHAPE, 1} toggles to {SCATTERED, 0} and back.
C1_ToggleFlipsAndSnaps ==
    [][ ToggleStep =>
          /\ state' \in TreeMorphState \ {state}
          /\ state' = TREE_SHAPE => progress' = One
          /\ state' = SCATTERED => progress' = 0
          /\ (state = TREE_SHAPE /\ progress = One) => (state' = SCATTERED /\ progress' = 0)
          /\ (state = SCATTERED /\ progress = 0) => (state' = TREE_SHAPE /\ progress' = One)
      ]_vars

\* the last commit saw {SCATTERED, 0}, the result of a first toggle, and a
\* toggle has just given {TREE_SHAPE, 1}
C1_Witness ==
    /\ lastOp = Op("key", 1)
    /\ state = TREE_SHAPE
    /\ progress = One
    /\ hookState = SCATTERED
    /\ hookProgress = 0

\* C2: in every state reachable from the initial state by key, wheel and
\* pointer-down events, the stored progress lies in [0,1].
C2_ProgressInUnitInterval ==
    /\ 0 <= progress
    /\ progress <= One

\* a wheel event whose unclamped result exceeded 1 left progress at 1
C2_Witness ==
    /\ lastOp.op = "wheel"
    /\ hookProgress - lastOp.arg * SpeedNum > One
    /\ progress = One

\* C3: in every state reachable by key, wheel and pointer-down events,
\* state = TREE_SHAPE exactly when progress > 0.5 and state = SCATTERED
\* exactly when progress <= 0.5.
C3_ModeClassifiesProgress ==
    /\ state = TREE_SHAPE <=> progress > Half
    /\ state = SCATTERED <=> progress <= Half

\* a wheel event landed progress exactly on 0.5
C3_Witness ==
    /\ lastOp.op = "wheel"
    /\ progress = Half
    /\ state = SCATTERED

\* C4: a pointer-down on panel i sets selectedPolaroid to i when the mode is
\* SCATTERED, leaves selectedPolaroid alone when the mode is TREE_SHAPE, and
\* never sets it to another index.
C4_PanelDownSelectsInScattered ==
    [][ \A i \in Panels :
          lastOp' = Op("panelDown", i) =>
             /\ state = SCATTERED => selectedPolaroid' = {i}
             /\ state = TREE_SHAPE => selectedPolaroid' = selectedPolaroid
             /\ selectedPolaroid' \in { {i}, selectedPolaroid }
      ]_vars

\* C5: a pointer-down on the scene background leaves no panel selected,
\* whatever the mode and progress are.  Stated for runs in which every
\* handler has read the current store (each event came after the commit that
\* followed the last store change), so that a violation shows what the
\* handler itself does in the other mode.
C5_BackgroundDownClears ==
    (lastOp.op = "backgroundDown" /\ ~staleRead) => selectedPolaroid = {}

\* C6: a pointer-down on panel j never clears a selection to null, and in
\* SCATTERED mode with a panel already selected it leaves panel j selected.
C6_PanelDownNeverClears ==
    [][ \A j \in Panels :
          (lastOp' = Op("panelDown", j) /\ selectedPolaroid # {}) =>
             /\ selectedPolaroid' # {}
             /\ state = SCATTERED => selectedPolaroid' = {j}
      ]_vars

\* C7: whatever value was passed to setProgress, the value both drivers pass
\* to easeInOutCubic in the following frame lies in [0,1].
C7_EaseArgumentClamped ==
    \A p \in easeArgInstanced \cup easeArgPanel : 0 <= p /\ p <= One

\* C8: whatever index is selected, a panel-driver frame dereferences the
\* per-panel arrays only at indices in [0, count), and with an out-of-range
\* selected index every panel takes the normal branch.
C8_StaleSelectionIgnored ==
    lastOp.op = "frame" =>
       /\ panelTouched \subseteq Panels
       /\ (hookSelected \cap Panels = {}) =>
             \A i \in Panels : panelBranch[i] = "normal"

\* a frame ran in SCATTERED mode while a stale index was selected
C8_Witness ==
    /\ lastOp.op = "frame"
    /\ hookState = SCATTERED
    /\ hookSelected # {}
    /\ hookSelected \cap Panels = {}
    /\ \A i \in Panels : panelBranch[i] = "normal"

(***************************************************************************)
(* easeInOutCubic, in exact arithmetic: the argument t is a numerator over *)
(* EaseDen and the result a numerator over EaseOutDen = 2 * EaseDen^3.     *)
(***************************************************************************)
EaseDen == 2 * EaseHalf
EaseOutDen == 2 * EaseDen * EaseDen * EaseDen

Cube(x) == x * x * x

\* 1 - pow(-2t+2, 3) without the division by 2
easeInOutCubicNoHalving(t) ==
    IF 2 * t < EaseDen
    THEN 8 * Cube(t)
    ELSE EaseOutDen - 2 * Cube(2 * EaseDen - 2 * t)

\* t < 0.5 ? 4*t*t*t : 1 - pow(-2*t + 2, 3) / 2
easeInOutCubic(t) ==
    IF 2 * t < EaseDen
    THEN 8 * Cube(t)
    ELSE EaseOutDen - Cube(2 * EaseDen - 2 * t)

EaseInit ==
    /\ SceneInit
    /\ easeIn \in (0 .. EaseDen) \X (0 .. EaseDen)
    /\ easeOut = << >>
    /\ count = 0
    /\ pts = << >>

EaseCall ==
    /\ easeOut = << >>
    /\ easeOut' = << easeInOutCubic(easeIn[1]), easeInOutCubic(easeIn[2]) >>
    /\ UNCHANGED << easeIn, gridVars, sceneVars >>

EaseNext == EaseCall

SpecEase == EaseInit /\ [][EaseNext]_vars

\* C9: for all p in [0,1], easeInOutCubic(p) lies in [0,1], it is 0 at 0, 1 at
\* 1 and 0.5 at 0.5, and p <= q implies easeInOutCubic(p) <= easeInOutCubic(q).
C9_EaseBoundedFixedMonotone ==
    easeOut # << >> =>
       /\ 0 <= easeOut[1]
       /\ easeOut[1] <= EaseOutDen
       /\ easeIn[1] = 0 => easeOut[1] = 0
       /\ easeIn[1] = EaseDen => easeOut[1] = EaseOutDen
       /\ 2 * easeIn[1] = EaseDen => 2 * easeOut[1] = EaseOutDen
       /\ easeIn[1] <= easeIn[2] => easeOut[1] <= easeOut[2]

\* the two arguments straddle the branch switch at 0.5
C9_Witness ==
    /\ easeOut # << >>
    /\ easeIn[1] = EaseHalf - 1
    /\ easeIn[2] = EaseHalf
    /\ easeOut[1] < easeOut[2]

(***************************************************************************)
(* buildPolaroidPoints: the ring layout of the panels.  A point keeps its  *)
(* layer, its slot idx and its height fraction tY = (layer+0.8) /          *)
(* (layers+0.6), held exactly as (10*layer+8) / (10*layers+6).             *)
(***************************************************************************)
\* Math.round(Math.sqrt(n)): the k with k - 0.5 <= sqrt(n) < k + 0.5
RoundSqrt(n) ==
    CHOOSE k \in 0 .. n :
        /\ k = 0 \/ (2 * k - 1) * (2 * k - 1) <= 4 * n
        /\ 4 * n < (2 * k + 1) * (2 * k + 1)

\* Math.ceil(a / b) for a >= 0, b > 0
CeilDiv(a, b) == (a + b - 1) \div b

Layers(n) == Max(1, RoundSqrt(n))

\* Math.floor for Math.ceil
PerLayerFloor(n) == Max(1, n \div Layers(n))
PerLayer(n) == Max(1, CeilDiv(n, Layers(n)))

\* the point pushed on iteration i (0-based) of the loop
PolaroidPoint(i) ==
    LET layer == i \div PerLayer(count)
        idx == i % PerLayer(count)
    IN  [ layer |-> layer,
          idx |-> idx,
          tY |-> [num |-> 10 * layer + 8, den |-> 10 * Layers(count) + 6] ]

GridInit ==
    /\ SceneInit
    /\ easeIn = << 0, 0 >>
    /\ easeOut = << >>
    /\ count \in 0 .. MaxCount
    /\ pts = << >>

\* one iteration of the for loop
BuildStep ==
    /\ Len(pts) < count
    /\ pts' = Append(pts, PolaroidPoint(Len(pts)))
    /\ UNCHANGED << count, easeVars, sceneVars >>

GridNext == BuildStep

SpecGrid == GridInit /\ [][GridNext]_vars

FocusedPanels == { i \in Panels : panelBranch[i] = "focus" }

\* C11: in each panel-driver frame, panel i takes the focus branch exactly
\* when the mode is SCATTERED and the selected index is i (mode and selection
\* as the frame reads them); so at most one panel is focused, none in
\* TREE_SHAPE mode or with no selection, and the morph interpolation writes
\* neither position, scale nor orientation of a focused panel in that frame.
C11_FocusOverridesMorph ==
    lastOp.op = "frame" =>
       /\ \A i \in Panels :
             panelBranch[i] = "focus" <=> (hookState = SCATTERED /\ hookSelected = {i})
       /\ Cardinality(FocusedPanels) <= 1
       /\ (hookState = TREE_SHAPE \/ hookSelected = {}) => FocusedPanels = {}
       /\ \A i \in FocusedPanels :
             \A k \in 1 .. Len(panelWrites[i]) : panelWrites[i][k].by # "morph"
       /\ \A i \in Panels \ FocusedPanels : panelWrites[i] = MorphWrites

\* a frame focused one panel and morphed another
C11_Witness ==
    /\ lastOp.op = "frame"
    /\ \E i, j \in Panels :
          /\ panelBranch[i] = "focus"
          /\ panelWrites[i] = FocusWrites
          /\ panelBranch[j] = "normal"
          /\ panelWrites[j] = MorphWrites

\* C12: in each instanced-driver frame over a batch of N points, slots
\* 0..N-1 are each written exactly once in index order and the dirty flag is
\* raised exactly once, after the write to the last slot.
C12_SlotsOnceThenDirtyOnce ==
    lastOp.op = "frame" =>
       \A b \in Batches :
          LET log == instLog[b]
              n == BatchLen[b]
          IN  /\ Len(log) = n + 1
              /\ \A k \in 1 .. n : log[k] = SetMatrixAt(k - 1)
              /\ log[n + 1] = NeedsUpdate
              /\ Cardinality({ k \in 1 .. Len(log) : log[k].call = "needsUpdate" }) = 1

\* a frame wrote every slot of a batch of at least two points
C12_Witness ==
    /\ lastOp.op = "frame"
    /\ \E b \in Batches :
          /\ BatchLen[b] >= 2
          /\ Len(instLog[b]) = BatchLen[b] + 1
          /\ instLog[b][BatchLen[b]].call = "setMatrixAt"
          /\ instLog[b][BatchLen[b] + 1].call = "needsUpdate"

\* C13: for every interleaving of wheel events, spacebar toggles and
\* re-renders, a wheel event with delta d leaves the stored progress equal to
\* clamp(P - 0.0012 * d, 0, 1), P being the store's progress immediately
\* before the event; no earlier update is overwritten by a value computed
\* from a stale progress.
C13_WheelStepsFromStoredProgress ==
    [][ \A d \in Deltas :
          lastOp' = Op("wheel", d) =>
             progress' = Clamp(progress - SpeedNum * d, 0, One)
      ]_vars

\* C14: in the normal branch at progress 1 (eased progress 1, alignment
\* weight 1) the orientation written to every panel is the upright one, its
\* forward (+Z) axis has a positive dot product with treePosition - center,
\* (right, up, forward) is a right-handed basis, and up is on the world-up
\* side.
C14_UprightFacesOutward ==
    (lastOp.op = "frame" /\ hookProgress = One) =>
       \A i \in Panels :
          panelBranch[i] = "normal" =>
             LET b == panelOrient[i].basis
             IN  /\ panelOrient[i].kind = "upright"
                 /\ Dot(b.forward, Sub(treePosition(i), treeCenter)) > 0
                 /\ Det3(b.right, b.up, b.forward) > 0
                 /\ Dot(b.up, worldUp) > 0

====
